---- MODULE Spec2Model ----
(***************************************************************************)
(* Offset tracking and commit engine of faust.transport.consumer.Consumer  *)
(* (src/faust/transport/consumer.py): the ack ledger, the single-writer    *)
(* commit coordinator, the fetcher's dispatch of records and the driver    *)
(* (broker) state the commits act on.                                      *)
(*                                                                         *)
(* The consumer runs on one cooperative event loop: every action below is  *)
(* the code that runs between two suspension points (await) of one task.   *)
(***************************************************************************)
EXTENDS Integers, Sequences, FiniteSets, TLC

\* ------------------------------------------------------------- bounds
MaxOffset == 2      \* record offsets are 0..MaxOffset
MaxMsgs == 2        \* messages dispatched to the callback in one run of Spec
MaxMsgsCoord == 3   \* ... in one run of SpecCoord
MaxMsgsAck == 2     \* ... in one run of SpecAck
MaxCancels == 1     \* task cancellations in one run
MaxOffsetLedger == 3 \* record offsets are 0..MaxOffsetLedger in SpecLedger
MaxMsgsLedger == 3  \* messages dispatched to the callback in one run of SpecLedger
MaxMsgsDrain == 2   \* ... in one run of SpecDrain
MaxMsgsFlush == 2   \* ... in one run of SpecFlush
MaxMsgsCancel == 2  \* ... in one run of SpecCancel
MaxBatchLen == 2    \* records of one TP that one fetch returns
MaxOffsetFetch == 1 \* the driver's fetches return the offsets 0..MaxOffsetFetch

\* ---------------------------------------------------------- constants
None == 0 - 1       \* Python's None in an Optional[int] slot
CommitEvery == 2    \* app.conf.broker_commit_every

TPs == {"a0", "b0"}
TopicOf(tp) == IF tp = "a0" THEN "a" ELSE "b"
Topics == {TopicOf(tp) : tp \in TPs}
Offsets == 0..MaxOffset
OffsetsLedger == 0..MaxOffsetLedger
OptOffsets == Offsets \cup {None}

\* The tasks that call commit(): the commit ticker (_commit_handler), the
\* fetcher (_drain_messages, commit-every) and one other caller
\* (wait_empty / on_stop / on_task_error).
Tasks == {"ticker", "fetcher", "caller"}
FutIds == 1..Cardinality(Tasks)
NoFut == 0

\* A Message object: its tp, its offset, and which delivery of that record it is.
MaxCopies == MaxMsgs + MaxMsgsCoord + MaxMsgsAck + MaxMsgsLedger + MaxMsgsDrain
Msgs == TPs \X (Offsets \cup OffsetsLedger) \X (1..MaxCopies)
MsgTp(m) == m[1]
MsgOffset(m) == m[2]

NoRecord == [st |-> "next", tp |-> "a0", off |-> 0]
NoPause == [tps |-> {}, active |-> {}, paused |-> {}, fresh |-> FALSE,
            resumed |-> FALSE]
\* The fetcher outside getmany. In getmany: st is its position; alias tells
\* that the local active_partitions is the very set object the consumer
\* holds, set is the content of the local set otherwise; req is the set the
\* driver's fetch was called with; order and index are topic_index (its keys
\* in insertion order, the records left in each topic's iterator), at the
\* position of the for loop over it (0: at the head of the while loop);
\* batch is topic_index as built, emitted the records yielded so far; pos is
\* the driver's fetch position of each TP.
NoIndex == [topic \in Topics |-> <<>>]
NoBatch == [st |-> "idle", alias |-> FALSE, set |-> {}, req |-> {},
            order |-> <<>>, index |-> NoIndex, to_remove |-> {}, at |-> 0,
            batch |-> NoIndex, emitted |-> <<>>,
            pos |-> [tp \in TPs |-> 0]]

VARIABLES
    acked,              \* _acked: TP -> list of acked offsets
    acked_index,        \* _acked_index: TP -> set of acked offsets
    read_offset,        \* _read_offset: TP -> Optional[int]
    committed_offset,   \* _committed_offset: TP -> Optional[int]
    unacked,            \* _unacked_messages
    n_acked,            \* _n_acked
    last_batch,         \* _last_batch (None or a time)
    created,            \* Message objects handed to the callback
    msg_acked,          \* the messages whose .acked is True
    acks_disabled,      \* topics for which app.topics.acks_enabled_for is False
    commit_fut,         \* _commit_fut: NoFut or the id of the installed future
    fut_cancelled,      \* whether the future in _commit_fut is cancelled
    pc,                 \* per task: where it is in commit()
    offs,               \* per task: commit_offsets / commitable_offsets of its commit
    wait_fut,           \* per task: the future it awaits in maybe_wait_for_commit_to_finish
    cancels,            \* cancellations so far
    assignment,         \* the driver's assignment()
    broker,             \* offset durably committed at the broker, per TP
    crashed,            \* the consumer service has crashed
    drain,              \* the fetcher's position in _drain_messages
    last_ack,           \* the last call of ack(): its message and return value
    active_partitions,  \* _active_partitions: <<>> for None, <<S>> for the set S
    paused_partitions,  \* _paused_partitions
    last_pause,         \* the last pause_partitions call and the sets it found
    driver_seeks,       \* the (tp, offset) the driver's seek was executed with
    should_stop,        \* Service.should_stop
    we,                 \* wait_empty (run by the task "caller"): its position
    flushed,            \* the (tp, offset) whose attached messages were
                        \* published and whose producer futures completed
    flow_active,        \* Consumer.flow_active
    gm,                 \* the fetcher inside getmany: its position, its local
                        \* active_partitions, topic_index and to_remove
    revoked             \* the TPs revoked by on_partitions_revoked and not
                        \* assigned again since

vars == <<acked, acked_index, read_offset, committed_offset, unacked, n_acked,
          last_batch, created, msg_acked, acks_disabled, commit_fut,
          fut_cancelled, pc, offs, wait_fut, cancels, assignment, broker,
          crashed, drain, last_ack, active_partitions, paused_partitions,
          last_pause, driver_seeks, should_stop, we, flushed, flow_active,
          gm, revoked>>

\* Flow controller, driver seeks and shutdown drainer.
flow_vars == <<active_partitions, paused_partitions, last_pause>>
\* Flow latch and getmany.
fetch_vars == <<flow_active, gm, revoked>>
aux_vars == <<flow_vars, driver_seeks, should_stop, we, flushed, fetch_vars>>

ledger == <<acked, acked_index, read_offset, committed_offset, unacked, n_acked>>
ledger_but_read == <<acked, acked_index, committed_offset, unacked, n_acked>>
message_vars == <<created, msg_acked>>
commit_vars == <<commit_fut, fut_cancelled, pc, offs, wait_fut>>

NoOffsets == [tp \in TPs |-> None]

\* pc values at which a task is not inside commit(): never called, or the
\* way its last call ended.
Returned == {"idle", "ret_true", "ret_false", "raised"}
\* pc values of the task that installed the pending-commit future.
InCommit == {"flushing", "flush_ok", "flush_err",
             "committing", "drv_ok", "drv_false", "drv_raise"}
InWait == {"waiting", "woken_ok", "woken_cancel"}

\* The commit() that wait_empty awaits has returned or raised: the event loop
\* runs wait_empty on to its next await before any other coroutine.
WaitEmptyResumes ==
    /\ we \in {"loop_commit", "final_commit"}
    /\ pc["caller"] \in {"ret_true", "ret_false", "raised"}

\* ------------------------------------------------------- pure helpers
RECURSIVE Insert(_, _)
Insert(x, s) ==
    IF s = <<>> THEN <<x>>
    ELSE IF x <= Head(s) THEN <<x>> \o s
    ELSE <<Head(s)>> \o Insert(x, Tail(s))

RECURSIVE Sort(_)
Sort(s) == IF s = <<>> THEN <<>> ELSE Insert(Head(s), Sort(Tail(s)))

\* faust.utils.functional.consecutive_numbers: the first list it yields, the
\* leading run of consecutive integers of s.
RECURSIVE RunLength(_, _)
RunLength(s, i) ==
    IF i < Len(s) /\ s[i + 1] = s[i] + 1 THEN RunLength(s, i + 1) ELSE i

FirstConsecutive(s) == SubSeq(s, 1, RunLength(s, 1))

RangeOf(s) == {s[i] : i \in 1..Len(s)}

\* Mutant of NewOffset: the run is taken out of the list but not out of the
\* index.
NewOffsetKeepIndex(lst) ==
    IF lst # <<>>
    THEN LET s == Sort(lst)
             n == Len(FirstConsecutive(s))
         IN [ret |-> s[n], rest |-> SubSeq(s, n + 1, Len(s)), batch |-> {}]
    ELSE [ret |-> None, rest |-> lst, batch |-> {}]

\* Mutant of NewOffset: commit up to the highest acked offset.
NewOffsetMax(lst) ==
    IF lst # <<>>
    THEN LET s == Sort(lst)
         IN [ret |-> s[Len(s)], rest |-> <<>>, batch |-> RangeOf(s)]
    ELSE [ret |-> None, rest |-> lst, batch |-> {}]

\* Consumer._new_offset on the list acked[tp]: the value returned, the list
\* left behind and the offsets removed from the index.
NewOffset(lst) ==
    IF lst # <<>>
    THEN LET s == Sort(lst)
             batch == FirstConsecutive(s)
         IN [ret |-> batch[Len(batch)],
             rest |-> SubSeq(s, Len(batch) + 1, Len(s)),
             batch |-> RangeOf(batch)]
    ELSE [ret |-> None, rest |-> lst, batch |-> {}]

\* Consumer._should_commit
ShouldCommit(committed, offset) ==
    committed = None \/ (offset # 0 /\ offset > committed)

\* Consumer._filter_committable_offsets over the TPs with pending acks
\* (commit(topics=None): every TP of _acked), given what _new_offset returned.
CommitOffsets(nf, committed) ==
    [tp \in TPs |->
        IF nf[tp].ret # None /\ ShouldCommit(committed[tp], nf[tp].ret)
        THEN nf[tp].ret ELSE None]

\* Mutant of Commitable: the assignment is not looked at.
CommitableAll(offsets, assigned) == offsets

\* Consumer._commit_offsets: the offsets of the TPs still in assignment().
Commitable(offsets, assigned) ==
    [tp \in TPs |-> IF tp \in assigned THEN offsets[tp] ELSE None]

\* Mutant of AckAccepts: an offset equal to the committed one is accepted.
AckAcceptsGeq(m, isAcked, disabled, committed, index) ==
    /\ ~isAcked
    /\ TopicOf(MsgTp(m)) \notin disabled
    /\ (committed = None \/ MsgOffset(m) >= committed)
    /\ MsgOffset(m) \notin index

\* Mutant of AckAccepts: the index of acked offsets is not looked at.
AckAcceptsNoIndex(m, isAcked, disabled, committed, index) ==
    /\ ~isAcked
    /\ TopicOf(MsgTp(m)) \notin disabled
    /\ (committed = None \/ MsgOffset(m) > committed)

\* Consumer.ack: the conditions under which it records the offset.
AckAccepts(m, isAcked, disabled, committed, index) ==
    /\ ~isAcked
    /\ TopicOf(MsgTp(m)) \notin disabled
    /\ (committed = None \/ MsgOffset(m) > committed)
    /\ MsgOffset(m) \notin index

\* The future object that task t's commit() creates (`self._commit_fut =
\* asyncio.Future(...)`), named after the task that installs it: a task has at
\* most one commit running, and every waiter on a future has been woken by the
\* time its installer can install another.
FutOf(t) ==
    CASE t = "ticker" -> 1
      [] t = "fetcher" -> 2
      [] OTHER -> 3

\* The next Message object made for record (tp, off).
NewMsg(tp, off) ==
    <<tp, off, 1 + Cardinality({m \in created : m[1] = tp /\ m[2] = off})>>

\* ------------------------------------------------------------- Init
Init ==
    /\ acked = [tp \in TPs |-> <<>>]
    /\ acked_index = [tp \in TPs |-> {}]
    /\ read_offset = [tp \in TPs |-> None]
    /\ committed_offset = [tp \in TPs |-> None]
    /\ unacked = {}
    /\ n_acked = 0
    /\ last_batch = None
    /\ created = {}
    /\ msg_acked = {}
    /\ acks_disabled \in {{}, {"b"}}
    /\ commit_fut = NoFut
    /\ fut_cancelled = FALSE
    /\ pc = [t \in Tasks |-> "idle"]
    /\ offs = [t \in Tasks |-> NoOffsets]
    /\ wait_fut = [t \in Tasks |-> NoFut]
    /\ cancels = 0
    /\ assignment = TPs
    /\ broker = [tp \in TPs |-> None]
    /\ crashed = FALSE
    /\ drain = NoRecord
    /\ last_ack = [m |-> <<"a0", 0, 1>>, ret |-> FALSE, n |-> 0]
    /\ active_partitions = <<>>
    /\ paused_partitions = {}
    /\ last_pause = NoPause
    /\ driver_seeks = {}
    /\ should_stop = FALSE
    /\ we = "idle"
    /\ flushed = {}
    /\ flow_active = TRUE
    /\ gm = NoBatch
    /\ revoked = {}

\* ------------------------------------------------------ ack ledger
\* Consumer.ack(message); last_ack' is left to the caller.
AckBody(m) ==
    /\ ~WaitEmptyResumes
    /\ UNCHANGED aux_vars
    /\ m \in created
    /\ LET tp == MsgTp(m)
           ok == AckAccepts(m, m \in msg_acked, acks_disabled,
                            committed_offset[tp], acked_index[tp])
       IN /\ msg_acked' = msg_acked \cup {m}
          /\ IF ok
             THEN /\ unacked' = unacked \ {m}
                  /\ acked_index' =
                        [acked_index EXCEPT ![tp] = @ \cup {MsgOffset(m)}]
                  /\ acked' = [acked EXCEPT ![tp] = Append(@, MsgOffset(m))]
                  /\ n_acked' = n_acked + 1
             ELSE UNCHANGED <<unacked, acked_index, acked, n_acked>>
    /\ UNCHANGED <<read_offset, committed_offset, last_batch, created,
                   acks_disabled, commit_vars, cancels, assignment, broker,
                   crashed, drain>>

\* The value ack(message) returns.
AckReturn(m) ==
    AckAccepts(m, m \in msg_acked, acks_disabled,
               committed_offset[MsgTp(m)], acked_index[MsgTp(m)])

\* ack(message) called by a stream that ignores the value returned.
Ack(m) == AckBody(m) /\ UNCHANGED last_ack

\* ack(message) with the call and the value it returns observed.
AckObserved(m) ==
    /\ AckBody(m)
    /\ last_ack' = [m |-> m, ret |-> AckReturn(m), n |-> 1 - last_ack.n]

\* ------------------------------------------------ commit coordinator
\* The finally clause of Consumer.commit: clear the slot, resolve the future
\* found in it, and return (or raise) with `ret`.
Finally(t, ret) ==
    /\ pc' = [u \in Tasks |->
                IF u = t THEN ret
                ELSE IF /\ pc[u] = "waiting"
                        /\ commit_fut # NoFut
                        /\ ~fut_cancelled
                        /\ wait_fut[u] = commit_fut
                     THEN "woken_ok"
                     ELSE pc[u]]
    /\ wait_fut' = [u \in Tasks |->
                      IF pc'[u] = "waiting" THEN wait_fut[u] ELSE NoFut]
    /\ commit_fut' = NoFut
    /\ fut_cancelled' = FALSE
    /\ offs' = [offs EXCEPT ![t] = NoOffsets]

\* Consumer.commit from the installation of the pending-commit future to the
\* first suspension of force_commit: _filter_tps_with_pending_acks,
\* _filter_committable_offsets (which runs _new_offset on every TP), then
\* either the await in _handle_attached or, with nothing to commit, the
\* return of False through the finally clause.
CommitBegin(t) ==
    LET nf == [tp \in TPs |-> NewOffset(acked[tp])]
        co == CommitOffsets(nf, committed_offset)
    IN /\ acked' = [tp \in TPs |-> nf[tp].rest]
       /\ acked_index' = [tp \in TPs |-> acked_index[tp] \ nf[tp].batch]
       /\ fut_cancelled' = FALSE
       /\ wait_fut' = [wait_fut EXCEPT ![t] = NoFut]
       /\ IF co = NoOffsets
          THEN /\ pc' = [pc EXCEPT ![t] = "ret_false"]
               /\ commit_fut' = NoFut
               /\ offs' = [offs EXCEPT ![t] = NoOffsets]
          ELSE /\ pc' = [pc EXCEPT ![t] = "flushing"]
               /\ commit_fut' = FutOf(t)
               /\ offs' = [offs EXCEPT ![t] = co]

\* Consumer.commit up to its first suspension: maybe_wait_for_commit_to_finish
\* suspends on a pending future; with no future, or a cancelled one (awaiting
\* it raises CancelledError at once, which is swallowed), the caller commits.
CommitEnter(t) ==
    IF commit_fut # NoFut /\ ~fut_cancelled
    THEN /\ pc' = [pc EXCEPT ![t] = "waiting"]
         /\ wait_fut' = [wait_fut EXCEPT ![t] = commit_fut]
         /\ UNCHANGED <<acked, acked_index, commit_fut, fut_cancelled, offs>>
    ELSE CommitBegin(t)

\* commit() called by the commit ticker or another caller.
CommitCall(t) ==
    /\ ~WaitEmptyResumes
    /\ UNCHANGED aux_vars
    /\ t # "fetcher"
    /\ pc[t] \in Returned
    /\ CommitEnter(t)
    /\ UNCHANGED <<read_offset, committed_offset, unacked, n_acked,
                   last_batch, message_vars, acks_disabled, cancels,
                   assignment, broker, crashed, drain, last_ack>>

\* Mutant of WaitReturnsTrue: a cancelled wait also counts as a finished
\* commit.
WaitReturnsTrueAlways(p) == TRUE

\* maybe_wait_for_commit_to_finish returns True when the awaited future was
\* resolved; a CancelledError is swallowed and it returns False.
WaitReturnsTrue(p) == p = "woken_ok"

\* A follower resumes after the future it awaited was resolved (it returns
\* False) or cancelled (it starts a commit of its own).
WaiterResume(t) ==
    /\ ~WaitEmptyResumes
    /\ UNCHANGED aux_vars
    /\ pc[t] \in {"woken_ok", "woken_cancel"}
    /\ IF WaitReturnsTrue(pc[t])
       THEN /\ pc' = [pc EXCEPT ![t] = "ret_false"]
            /\ UNCHANGED <<acked, acked_index, commit_fut, fut_cancelled,
                           offs, wait_fut>>
       ELSE CommitBegin(t)
    /\ UNCHANGED <<read_offset, committed_offset, unacked, n_acked,
                   last_batch, message_vars, acks_disabled, cancels,
                   assignment, broker, crashed, drain, last_ack>>

\* A task is cancelled while it awaits the pending-commit future
\* (Fetcher.on_stop cancels the drainer): Task.cancel cancels the future the
\* task awaits, so every task awaiting it gets CancelledError.
CancelWaiter(t) ==
    /\ ~WaitEmptyResumes
    /\ UNCHANGED aux_vars
    /\ pc[t] = "waiting"
    /\ cancels < MaxCancels
    /\ cancels' = cancels + 1
    /\ pc' = [u \in Tasks |->
                IF pc[u] = "waiting" /\ wait_fut[u] = wait_fut[t]
                THEN "woken_cancel" ELSE pc[u]]
    /\ wait_fut' = [u \in Tasks |->
                      IF pc'[u] = "waiting" THEN wait_fut[u] ELSE NoFut]
    /\ fut_cancelled' = (fut_cancelled \/ commit_fut = wait_fut[t])
    /\ UNCHANGED <<ledger, last_batch, message_vars, acks_disabled,
                   commit_fut, offs, assignment, broker, crashed, drain,
                   last_ack>>

\* _handle_attached: the producer finishes sending the attached messages,
\* or raises ProducerSendError.
FlushDone(t, ok) ==
    /\ ~WaitEmptyResumes
    /\ UNCHANGED aux_vars
    /\ pc[t] = "flushing"
    /\ pc' = [pc EXCEPT ![t] = IF ok THEN "flush_ok" ELSE "flush_err"]
    /\ UNCHANGED <<ledger, last_batch, message_vars, acks_disabled,
                   commit_fut, fut_cancelled, offs, wait_fut, cancels,
                   assignment, broker, crashed, drain, last_ack>>

\* The (tp, offset) of commit_offsets that _handle_attached has yet to flush.
Unflushed(o, done) == {tp \in TPs : o[tp] # None /\ <<tp, o[tp]>> \notin done}

\* Mutant of AllFlushed: _handle_attached returns before its loop has run.
AllFlushedAtOnce(o, done) == TRUE

\* _handle_attached returns when its loop over commit_offsets.items() has
\* published and awaited the attachments of every (tp, offset).
AllFlushed(o, done) == Unflushed(o, done) = {}

\* _handle_attached, one iteration: publish_for_tp_offset(tp, offset) and
\* producer.wait_many(pending) complete for one (tp, offset).
FlushTp(t, tp) ==
    /\ ~WaitEmptyResumes
    /\ pc[t] = "flushing"
    /\ tp \in Unflushed(offs[t], flushed)
    /\ flushed' = flushed \cup {<<tp, offs[t][tp]>>}
    /\ UNCHANGED <<ledger, last_batch, message_vars, acks_disabled,
                   commit_vars, cancels, assignment, broker, crashed, drain,
                   last_ack, flow_vars, driver_seeks, should_stop, we,
                   fetch_vars>>

\* _handle_attached returns after its last iteration, or an iteration raises
\* ProducerSendError.
FlushEnd(t, ok) ==
    /\ ok => AllFlushed(offs[t], flushed)
    /\ FlushDone(t, ok)

\* Mutant of FlushFailed: the producer's error is not caught as a failure.
FlushFailedNever(at) == FALSE

\* _commit_tps: the except clause catches the producer's ProducerSendError.
FlushFailed(at) == at = "flush_err"

\* _commit_tps after _handle_attached: crash on ProducerSendError, otherwise
\* _commit_offsets up to the await of the driver's commit.
FlushResume(t) ==
    /\ ~WaitEmptyResumes
    /\ UNCHANGED aux_vars
    /\ pc[t] \in {"flush_ok", "flush_err"}
    /\ IF FlushFailed(pc[t])
       THEN /\ crashed' = TRUE
            /\ Finally(t, "ret_false")
       ELSE /\ crashed' = crashed
            /\ LET c == Commitable(offs[t], assignment)
               IN IF c = NoOffsets
                  THEN Finally(t, "ret_false")
                  ELSE /\ pc' = [pc EXCEPT ![t] = "committing"]
                       /\ offs' = [offs EXCEPT ![t] = c]
                       /\ UNCHANGED <<commit_fut, fut_cancelled, wait_fut>>
    /\ UNCHANGED <<ledger, last_batch, message_vars, acks_disabled, cancels,
                   assignment, broker, drain, last_ack>>

\* The driver's commit (ConsumerThread.commit) finishes: it committed the
\* offsets at the broker and returns True, or reports failure by returning
\* False, or raises.
DriverCommitDone(t, outcome) ==
    /\ ~WaitEmptyResumes
    /\ UNCHANGED aux_vars
    /\ pc[t] = "committing"
    /\ pc' = [pc EXCEPT ![t] = outcome]
    /\ broker' = IF outcome = "drv_ok"
                 THEN [tp \in TPs |->
                         IF offs[t][tp] # None THEN offs[t][tp] ELSE broker[tp]]
                 ELSE broker
    /\ UNCHANGED <<ledger, last_batch, message_vars, acks_disabled,
                   commit_fut, fut_cancelled, offs, wait_fut, cancels,
                   assignment, crashed, drain, last_ack>>

\* _commit_offsets after the await of self._commit(...): the value the driver
\* returned is not looked at.
CommittedAfter(t, outcome) ==
    [tp \in TPs |->
        IF offs[t][tp] # None THEN offs[t][tp] ELSE committed_offset[tp]]

CommitResume(t) ==
    /\ ~WaitEmptyResumes
    /\ UNCHANGED aux_vars
    /\ pc[t] \in {"drv_ok", "drv_false", "drv_raise"}
    /\ IF pc[t] = "drv_raise"
       THEN /\ Finally(t, "raised")
            /\ UNCHANGED <<committed_offset, last_batch>>
       ELSE /\ committed_offset' = CommittedAfter(t, pc[t])
            /\ last_batch' = None
            /\ Finally(t, "ret_true")
    /\ UNCHANGED <<acked, acked_index, read_offset, unacked, n_acked,
                   message_vars, acks_disabled, cancels, assignment, broker,
                   crashed, drain, last_ack>>

\* ------------------------------------------------------------ fetcher
\* Conductor.on_message -> track_message: the callback's prelude.
Callback(tp, off) ==
    /\ created' = created \cup {NewMsg(tp, off)}
    /\ unacked' = unacked \cup {NewMsg(tp, off)}
    /\ msg_acked' = msg_acked
    /\ drain' = [st |-> "callback", tp |-> tp, off |-> off]

\* Mutant of AboveReadOffset: a record at read_offset itself is dispatched.
AboveReadOffsetGeq(r_offset, offset) == r_offset = None \/ offset >= r_offset

\* _drain_messages: `if r_offset is None or offset > r_offset`.
AboveReadOffset(r_offset, offset) == r_offset = None \/ offset > r_offset

\* The body of _drain_messages' `async for` for the (tp, message) that
\* getmany yielded: drop the record if its offset is not above
\* read_offset[tp]; commit first if commit-every is due; otherwise invoke the
\* callback.
DrainItem(tp, off, limit, commit_every) ==
    /\ drain.st = "next"
    /\ pc["fetcher"] \in Returned
    /\ Cardinality(created) < limit
    /\ IF AboveReadOffset(read_offset[tp], off)
       THEN IF commit_every # None /\ n_acked >= commit_every
            THEN /\ n_acked' = 0
                 /\ drain' = [st |-> "commit", tp |-> tp, off |-> off]
                 /\ CommitEnter("fetcher")
                 /\ UNCHANGED <<unacked, message_vars>>
            ELSE /\ Callback(tp, off)
                 /\ UNCHANGED <<acked, acked_index, n_acked, commit_vars>>
       ELSE UNCHANGED <<acked, acked_index, n_acked, unacked, message_vars,
                        commit_vars, drain>>
    /\ UNCHANGED <<read_offset, committed_offset, last_batch, acks_disabled,
                   cancels, assignment, broker, crashed, last_ack>>

\* _drain_messages takes the next (tp, message) of getmany, which may yield
\* any record of an assigned TP.
DrainTake(tp, off, limit, commit_every) ==
    /\ ~WaitEmptyResumes
    /\ UNCHANGED aux_vars
    /\ tp \in assignment
    /\ DrainItem(tp, off, limit, commit_every)

\* The fetcher's commit() returned: invoke the callback; or it raised, and the
\* exception leaves _drain_messages.
DrainAfterCommit ==
    /\ ~WaitEmptyResumes
    /\ UNCHANGED aux_vars
    /\ drain.st = "commit"
    /\ pc["fetcher"] \in {"ret_true", "ret_false", "raised"}
    /\ IF pc["fetcher"] = "raised"
       THEN /\ drain' = [drain EXCEPT !.st = "stopped"]
            /\ UNCHANGED <<unacked, message_vars>>
       ELSE Callback(drain.tp, drain.off)
    /\ UNCHANGED <<acked, acked_index, read_offset, committed_offset, n_acked,
                   last_batch, acks_disabled, commit_vars, cancels,
                   assignment, broker, crashed, last_ack>>

\* The callback returned: set_read_offset(tp, offset).
DrainSetReadOffset ==
    /\ ~WaitEmptyResumes
    /\ UNCHANGED aux_vars
    /\ drain.st = "callback"
    /\ read_offset' = [read_offset EXCEPT ![drain.tp] = drain.off]
    /\ drain' = NoRecord
    /\ UNCHANGED <<acked, acked_index, committed_offset, unacked, n_acked,
                   last_batch, message_vars, acks_disabled, commit_vars,
                   cancels, assignment, broker, crashed, last_ack>>

\* ------------------------------------------------------ seek, driver
\* Consumer.perform_seek, with seek_to_committed returning the broker's
\* committed offset of every assigned TP.
PerformSeek ==
    /\ ~WaitEmptyResumes
    /\ UNCHANGED aux_vars
    /\ read_offset' = [tp \in TPs |->
          IF tp \in assignment /\ broker[tp] # None
          THEN (IF broker[tp] # 0 THEN broker[tp] ELSE None)
          ELSE read_offset[tp]]
    /\ committed_offset' = [tp \in TPs |->
          IF tp \in assignment /\ broker[tp] # None
          THEN broker[tp] ELSE committed_offset[tp]]
    /\ UNCHANGED <<acked, acked_index, unacked, n_acked, last_batch,
                   message_vars, acks_disabled, commit_vars, cancels,
                   assignment, broker, crashed, drain, last_ack>>

\* Consumer.seek(partition, offset). Its last statement, self._seek(partition,
\* offset), is not awaited: it makes a coroutine object that is never run, so
\* the driver's seek is not executed and driver_seeks is left as it is.
Seek(tp, off) ==
    /\ ~WaitEmptyResumes
    /\ UNCHANGED aux_vars
    /\ last_batch' = None
    /\ read_offset' = [read_offset EXCEPT ![tp] = IF off # 0 THEN off ELSE None]
    /\ UNCHANGED <<acked, acked_index, committed_offset, unacked, n_acked,
                   message_vars, acks_disabled, commit_vars, cancels,
                   assignment, broker, crashed, drain, last_ack>>

\* A rebalance changes what the driver's assignment() returns.
Revoke(tp) ==
    /\ ~WaitEmptyResumes
    /\ UNCHANGED aux_vars
    /\ tp \in assignment
    /\ assignment' = assignment \ {tp}
    /\ UNCHANGED <<ledger, last_batch, message_vars, acks_disabled,
                   commit_vars, cancels, broker, crashed, drain, last_ack>>

Assign(tp) ==
    /\ ~WaitEmptyResumes
    /\ UNCHANGED aux_vars
    /\ tp \notin assignment
    /\ assignment' = assignment \cup {tp}
    /\ UNCHANGED <<ledger, last_batch, message_vars, acks_disabled,
                   commit_vars, cancels, broker, crashed, drain, last_ack>>

\* --------------------------------------------------- shutdown drainer
\* wait_empty from its call, or from the end of _wait_for_ack (ack's notify,
\* or the 1 s timeout), to its next await: the loop test, then commit().
WaitEmptyLoop ==
    /\ we \in {"idle", "wait_ack"}
    /\ pc["caller"] \in Returned
    /\ we' = IF ~should_stop /\ unacked # {} THEN "loop_commit"
             ELSE "final_commit"
    /\ CommitEnter("caller")
    /\ UNCHANGED <<read_offset, committed_offset, unacked, n_acked,
                   last_batch, message_vars, acks_disabled, cancels,
                   assignment, broker, crashed, drain, last_ack, flow_vars,
                   driver_seeks, should_stop, flushed, fetch_vars>>

\* wait_empty after the commit() it awaited: after the commit of the loop,
\* break to the final commit() when unacked is empty, else _wait_for_ack;
\* after the final commit, return; an exception of commit() leaves wait_empty.
WaitEmptyResume ==
    /\ WaitEmptyResumes
    /\ IF pc["caller"] = "raised"
       THEN /\ we' = "raised"
            /\ pc' = [pc EXCEPT !["caller"] = "idle"]
            /\ UNCHANGED <<acked, acked_index, commit_fut, fut_cancelled,
                           offs, wait_fut>>
       ELSE IF we = "final_commit"
       THEN /\ we' = "returned"
            /\ pc' = [pc EXCEPT !["caller"] = "idle"]
            /\ UNCHANGED <<acked, acked_index, commit_fut, fut_cancelled,
                           offs, wait_fut>>
       ELSE IF unacked = {}
       THEN /\ we' = "final_commit"
            /\ CommitEnter("caller")
       ELSE /\ we' = "wait_ack"
            /\ pc' = [pc EXCEPT !["caller"] = "idle"]
            /\ UNCHANGED <<acked, acked_index, commit_fut, fut_cancelled,
                           offs, wait_fut>>
    /\ UNCHANGED <<read_offset, committed_offset, unacked, n_acked,
                   last_batch, message_vars, acks_disabled, cancels,
                   assignment, broker, crashed, drain, last_ack, flow_vars,
                   driver_seeks, should_stop, flushed, fetch_vars>>

\* The weak set _unacked_messages sheds a message nothing refers to any more;
\* a message is referred to by its stream until ack() was called on it.
Collect(m) ==
    /\ ~WaitEmptyResumes
    /\ m \in unacked
    /\ m \in msg_acked
    /\ unacked' = unacked \ {m}
    /\ UNCHANGED <<acked, acked_index, read_offset, committed_offset, n_acked,
                   last_batch, message_vars, acks_disabled, commit_vars,
                   cancels, assignment, broker, crashed, drain, last_ack,
                   aux_vars>>

\* The service is told to stop.
Stop ==
    /\ ~WaitEmptyResumes
    /\ ~should_stop
    /\ should_stop' = TRUE
    /\ UNCHANGED <<ledger, last_batch, message_vars, acks_disabled,
                   commit_vars, cancels, assignment, broker, crashed, drain,
                   last_ack, flow_vars, driver_seeks, we, flushed,
                   fetch_vars>>

\* ---------------------------------------------------- flow controller
\* Everything but the flow controller's sets and the livelock clock.
nonflow_vars == <<ledger, message_vars, acks_disabled, commit_vars, cancels,
                  broker, crashed, drain, last_ack, driver_seeks, should_stop,
                  we, flushed>>

\* Mutant of SetActiveTps: the paused partitions are not taken out.
SetActiveTpsAll(tps, paused) == tps

\* Consumer._set_active_tps: a copy of tps without the paused partitions.
SetActiveTps(tps, paused) == tps \ paused

\* Consumer._get_active_partitions: the set it returns (and, when
\* _active_partitions was None, stores).
GetActivePartitions ==
    IF active_partitions = <<>>
    THEN SetActiveTps(assignment, paused_partitions)
    ELSE active_partitions[1]

\* Mutant of Resumed: the partitions stay paused.
ResumedStillPaused(active, paused, tpset) ==
    [active |-> active \cup tpset, paused |-> paused]

\* Consumer.resume_partitions: the two sets after the call.
Resumed(active, paused, tpset) ==
    [active |-> active \cup tpset, paused |-> paused \ tpset]

\* getmany reads the active partitions: the lazy derivation from assignment().
DeriveActive ==
    /\ active_partitions = <<>>
    /\ active_partitions' = <<GetActivePartitions>>
    /\ last_pause' = [last_pause EXCEPT !.fresh = FALSE, !.resumed = FALSE]
    /\ UNCHANGED <<paused_partitions, assignment, last_batch, nonflow_vars,
                   fetch_vars>>

\* Consumer.pause_partitions(tps)
PausePartitions(tpset) ==
    /\ active_partitions' = <<GetActivePartitions \ tpset>>
    /\ paused_partitions' = paused_partitions \cup tpset
    /\ last_pause' = [tps |-> tpset, active |-> GetActivePartitions,
                      paused |-> paused_partitions, fresh |-> TRUE,
                      resumed |-> FALSE]
    /\ UNCHANGED <<assignment, last_batch, nonflow_vars, fetch_vars>>

\* Consumer.resume_partitions(tps)
ResumePartitions(tpset) ==
    LET r == Resumed(GetActivePartitions, paused_partitions, tpset)
    IN /\ active_partitions' = <<r.active>>
       /\ paused_partitions' = r.paused
       /\ last_pause' = [last_pause EXCEPT
                           !.fresh = FALSE,
                           !.resumed = last_pause.fresh /\ last_pause.tps = tpset]
       /\ UNCHANGED <<assignment, last_batch, nonflow_vars, fetch_vars>>

\* The local active_partitions of a running getmany once the consumer has
\* replaced its set object (_set_active_tps, _reset_state): the local name
\* keeps the old object, which nothing updates any more.
Detached(g) ==
    IF g.alias
    THEN [g EXCEPT !.alias = FALSE, !.set = active_partitions[1]]
    ELSE g

\* Consumer.on_partitions_revoked(revoked)
OnPartitionsRevoked(rvk) ==
    /\ active_partitions' = IF active_partitions = <<>> THEN <<>>
                            ELSE <<active_partitions[1] \ rvk>>
    /\ paused_partitions' = paused_partitions \ rvk
    /\ last_pause' = [last_pause EXCEPT !.fresh = FALSE, !.resumed = FALSE]
    /\ revoked' = revoked \cup rvk
    /\ UNCHANGED <<assignment, last_batch, nonflow_vars, flow_active, gm>>

\* Consumer.on_partitions_assigned(assigned)
OnPartitionsAssigned(assigned) ==
    /\ paused_partitions' = paused_partitions \cap assigned
    /\ active_partitions' = <<SetActiveTps(assigned, paused_partitions')>>
    /\ last_batch' = None
    /\ last_pause' = [last_pause EXCEPT !.fresh = FALSE, !.resumed = FALSE]
    /\ gm' = Detached(gm)
    /\ revoked' = revoked \ assigned
    /\ UNCHANGED <<assignment, nonflow_vars, flow_active>>

\* Consumer.on_restart: _reset_state
OnRestart ==
    /\ active_partitions' = <<>>
    /\ paused_partitions' = {}
    /\ last_batch' = None
    /\ last_pause' = [last_pause EXCEPT !.fresh = FALSE, !.resumed = FALSE]
    /\ flow_active' = TRUE
    /\ gm' = Detached(gm)
    /\ UNCHANGED <<assignment, nonflow_vars, revoked>>

\* ------------------------------------------------------------ getmany
\* Consumer.stop_flow
StopFlow ==
    /\ flow_active
    /\ flow_active' = FALSE
    /\ UNCHANGED <<flow_vars, assignment, last_batch, nonflow_vars, gm,
                   revoked>>

\* Consumer.resume_flow: can_resume_flow.set() wakes a getmany waiting on it.
ResumeFlow ==
    /\ ~flow_active
    /\ flow_active' = TRUE
    /\ gm' = IF gm.st = "wait_flow" THEN [gm EXCEPT !.st = "flow_woken"]
             ELSE gm
    /\ UNCHANGED <<flow_vars, assignment, last_batch, nonflow_vars, revoked>>

\* The set that getmany's local name active_partitions denotes.
LocalActive(g) == IF g.alias THEN active_partitions[1] ELSE g.set

\* The TP of a topic (every topic of the model has one partition).
TpOf(topic) == CHOOSE tp \in TPs : TopicOf(tp) = topic

\* TopicBuffer.map_from_records: for every topic one iterator over the
\* records fetched for the topic's partitions.
TopicIndexOf(records) ==
    [topic \in Topics |->
        [i \in 1..Len(records[TpOf(topic)]) |->
            <<TpOf(topic), records[TpOf(topic)][i]>>]]

\* The orders in which the topics of the fetched records may have been
\* inserted into topic_index.
InsertionOrders(index) ==
    LET present == {topic \in Topics : index[topic] # <<>>}
    IN {ord \in UNION {[1..n -> present] : n \in 0..Cardinality(Topics)} :
            /\ Len(ord) = Cardinality(present)
            /\ \A i, j \in 1..Len(ord) : i # j => ord[i] # ord[j]}

NoItem == <<>>

\* Mutant of IsActive: the test of `tp in active_partitions` is left out.
IsActiveAlways(tp, active) == TRUE

\* getmany: `if tp in active_partitions`.
IsActive(tp, active) == tp \in active

\* The round-robin loop of getmany from where it stands to its next yield
\* (item is the record yielded) or to its end (item is NoItem): the while
\* loop pops the topics of to_remove, the for loop takes one record of each
\* topic in insertion order, either loop is left when the flow is stopped.
RECURSIVE RunGetmany(_, _, _)
RunGetmany(g, flowing, active) ==
    IF g.at = 0
    THEN IF g.order = <<>> \/ ~flowing
         THEN [g |-> g, item |-> NoItem]
         ELSE LET Kept(topic) == topic \notin g.to_remove
              IN RunGetmany([g EXCEPT !.order = SelectSeq(g.order, Kept),
                                      !.at = 1], flowing, active)
    ELSE IF g.at > Len(g.order) \/ ~flowing
    THEN RunGetmany([g EXCEPT !.at = 0], flowing, active)
    ELSE LET topic == g.order[g.at]
             messages == g.index[topic]
         IN IF messages = <<>>
            THEN RunGetmany([g EXCEPT !.to_remove = @ \cup {topic},
                                      !.at = @ + 1], flowing, active)
            ELSE LET item == Head(messages)
                     g1 == [g EXCEPT !.index[topic] = Tail(messages),
                                     !.at = @ + 1]
                 IN IF IsActive(item[1], active)
                    THEN [g |-> [g1 EXCEPT !.emitted = Append(@, item)],
                          item |-> item]
                    ELSE RunGetmany(g1, flowing, active)

\* getmany runs on from g to its next yield, where _drain_messages takes the
\* record, or to its end.
GetmanyRun(g, limit, commit_every) ==
    LET r == RunGetmany(g, flow_active, LocalActive(g))
    IN IF r.item = NoItem
       THEN /\ gm' = [r.g EXCEPT !.st = "idle", !.alias = FALSE, !.set = {}]
            /\ UNCHANGED <<ledger, message_vars, commit_vars, drain>>
       ELSE /\ gm' = r.g
            /\ DrainItem(r.item[1], r.item[2], limit, commit_every)

\* getmany past the flow latch: the active partitions are read (derived from
\* assignment() when unset) and the driver's fetch is awaited; with no active
\* partition getmany sleeps and ends with nothing fetched.
GetmanyFetch ==
    /\ active_partitions' = <<GetActivePartitions>>
    /\ last_pause' = IF active_partitions = <<>>
                     THEN [last_pause EXCEPT !.fresh = FALSE, !.resumed = FALSE]
                     ELSE last_pause
    /\ gm' = IF GetActivePartitions # {}
             THEN [gm EXCEPT !.st = "fetch", !.alias = TRUE,
                             !.req = GetActivePartitions]
             ELSE [gm EXCEPT !.st = "idle"]

\* _drain_messages calls getmany, which waits on can_resume_flow when the
\* flow is stopped and fetches otherwise.
GetmanyEnter ==
    /\ ~WaitEmptyResumes
    /\ gm.st = "idle"
    /\ drain.st = "next"
    /\ pc["fetcher"] \in Returned
    /\ ~should_stop
    /\ IF flow_active
       THEN GetmanyFetch
       ELSE /\ gm' = [gm EXCEPT !.st = "wait_flow"]
            /\ UNCHANGED flow_vars
    /\ UNCHANGED <<paused_partitions, assignment, last_batch, nonflow_vars,
                   flow_active, revoked>>

\* getmany resumes after its wait on can_resume_flow.
GetmanyFlowResumed ==
    /\ ~WaitEmptyResumes
    /\ gm.st = "flow_woken"
    /\ GetmanyFetch
    /\ UNCHANGED <<paused_partitions, assignment, last_batch, nonflow_vars,
                   flow_active, revoked>>

\* The records a fetch may return: for every TP asked for, up to MaxBatchLen
\* records from the driver's position on, none beyond MaxOffsetFetch.
Fetchable(g) ==
    {n \in [TPs -> 0..MaxBatchLen] :
        \A tp \in TPs :
            /\ tp \notin g.req => n[tp] = 0
            /\ g.pos[tp] + n[tp] <= MaxOffsetFetch + 1}

\* The driver's fetch returns: topic_index is built and the round-robin loop
\* runs to its first yield.
GetmanyFetched(n, ord, limit, commit_every) ==
    /\ ~WaitEmptyResumes
    /\ gm.st = "fetch"
    /\ n \in Fetchable(gm)
    /\ LET records == [tp \in TPs |-> [i \in 1..n[tp] |-> gm.pos[tp] + i - 1]]
           index == TopicIndexOf(records)
       IN /\ ord \in InsertionOrders(index)
          /\ GetmanyRun([gm EXCEPT !.st = "loop", !.order = ord,
                                   !.index = index, !.batch = index,
                                   !.to_remove = {}, !.at = 0,
                                   !.emitted = <<>>,
                                   !.pos = [tp \in TPs |-> @[tp] + n[tp]]],
                        limit, commit_every)
    /\ UNCHANGED <<flow_vars, assignment, last_batch, acks_disabled, cancels,
                   broker, crashed, last_ack, driver_seeks, should_stop, we,
                   flushed, flow_active, revoked>>

\* _drain_messages asks getmany for the next record.
GetmanyNext(limit, commit_every) ==
    /\ ~WaitEmptyResumes
    /\ gm.st = "loop"
    /\ drain.st = "next"
    /\ pc["fetcher"] \in Returned
    /\ GetmanyRun(gm, limit, commit_every)
    /\ UNCHANGED <<flow_vars, assignment, last_batch, acks_disabled, cancels,
                   broker, crashed, last_ack, driver_seeks, should_stop, we,
                   flushed, flow_active, revoked>>

\* ------------------------------------------------------------- Next
DriverOutcomes == {"drv_ok", "drv_false", "drv_raise"}

\* The steps of a commit past its entry, for the tasks of `tasks`.
CommitSteps(tasks) ==
    \/ \E t \in tasks, ok \in BOOLEAN : FlushDone(t, ok)
    \/ \E t \in tasks : FlushResume(t)
    \/ \E t \in tasks, o \in DriverOutcomes : DriverCommitDone(t, o)
    \/ \E t \in tasks : CommitResume(t)

\* The fetcher dispatching at most `limit` records of the TPs of `tps`, their
\* offsets in `offsets`, with broker_commit_every set to `commit_every`.
FetcherSteps(tps, offsets, limit, commit_every) ==
    \/ \E tp \in tps, off \in offsets : DrainTake(tp, off, limit, commit_every)
    \/ DrainAfterCommit
    \/ DrainSetReadOffset

\* The fetcher with broker_commit_every unset: it never commits.
FetcherStepsNoCommit(tps, limit) ==
    \/ \E tp \in tps, off \in Offsets : DrainTake(tp, off, limit, None)
    \/ DrainSetReadOffset

\* The engine: ledger, fetcher, the commit ticker, seeks and rebalances.
Next ==
    \/ \E m \in created : Ack(m)
    \/ CommitCall("ticker")
    \/ CommitSteps({"ticker"})
    \/ FetcherStepsNoCommit(TPs, MaxMsgs)
    \/ PerformSeek
    \/ \E tp \in TPs : Revoke(tp)
    \/ \E tp \in TPs : Assign(tp)

Spec == Init /\ [][Next]_vars

\* The commit coordinator: three callers of commit() on one partition, and
\* cancellation of a task that waits for the pending commit.
InitCoord == Init /\ acks_disabled = {}

NextCoord ==
    \/ \E m \in created : Ack(m)
    \/ \E t \in Tasks : CommitCall(t)
    \/ \E t \in Tasks : CancelWaiter(t)
    \/ \E t \in Tasks : WaiterResume(t)
    \/ CommitSteps(Tasks)
    \/ FetcherSteps({"a0"}, Offsets, MaxMsgsCoord, CommitEvery)

SpecCoord == InitCoord /\ [][NextCoord]_vars

\* The ack ledger under commits: the fetcher's commit-every commit and the
\* commit ticker on one partition whose records may skip offsets.
NextLedger ==
    \/ \E m \in created : Ack(m)
    \/ CommitCall("ticker")
    \/ \E t \in {"ticker", "fetcher"} : WaiterResume(t)
    \/ CommitSteps({"ticker", "fetcher"})
    \/ FetcherSteps({"a0"}, OffsetsLedger, MaxMsgsLedger, CommitEvery)

SpecLedger == InitCoord /\ [][NextLedger]_vars

\* The shutdown drainer: wait_empty next to the fetcher, the streams' acks and
\* the commit ticker.
DrainTasks == {"ticker", "caller"}

NextDrainLive ==
    \/ \E m \in created : Ack(m)
    \/ \E m \in unacked : Collect(m)
    \/ CommitCall("ticker")
    \/ \E t \in DrainTasks : WaiterResume(t)
    \/ CommitSteps(DrainTasks)
    \/ FetcherStepsNoCommit(TPs, MaxMsgsDrain)
    \/ WaitEmptyLoop
    \/ WaitEmptyResume

NextDrain == NextDrainLive \/ Stop

SpecDrain == Init /\ [][NextDrain]_vars

\* The same with the service not stopping, every step of wait_empty and of a
\* commit eventually taken, and ack() eventually called on every message
\* handed to the callback (strong fairness: the steps of other coroutines are
\* disabled while wait_empty runs on from a commit).
SpecDrainLive ==
    /\ Init
    /\ [][NextDrainLive]_vars
    /\ WF_vars(WaitEmptyLoop)
    /\ WF_vars(WaitEmptyResume)
    /\ SF_vars(CommitSteps(DrainTasks))
    /\ SF_vars(\E t \in DrainTasks : WaiterResume(t))
    /\ SF_vars(\E m \in created : Ack(m))

\* Two callers of commit() (the commit ticker and wait_empty / on_stop), the
\* one that waits being cancelled, with the fetcher never committing.
NextCancel ==
    \/ \E m \in created : Ack(m)
    \/ \E t \in DrainTasks : CommitCall(t)
    \/ \E t \in DrainTasks : CancelWaiter(t)
    \/ \E t \in DrainTasks : WaiterResume(t)
    \/ CommitSteps(DrainTasks)
    \/ FetcherStepsNoCommit({"a0"}, MaxMsgsCancel)

SpecCancel == InitCoord /\ [][NextCancel]_vars

\* The commit procedure with the flush of the attached messages taken one
\* (tp, offset) at a time.
NextFlush ==
    \/ \E m \in created : Ack(m)
    \/ CommitCall("ticker")
    \/ \E tp \in TPs : FlushTp("ticker", tp)
    \/ \E ok \in BOOLEAN : FlushEnd("ticker", ok)
    \/ FlushResume("ticker")
    \/ \E o \in DriverOutcomes : DriverCommitDone("ticker", o)
    \/ CommitResume("ticker")
    \/ FetcherStepsNoCommit(TPs, MaxMsgsFlush)
    \/ \E tp \in TPs : Revoke(tp)

SpecFlush == InitCoord /\ [][NextFlush]_vars

\* More messages than the fetches of one run return records.
FetchLimit == Cardinality(TPs) * (MaxOffsetFetch + 1) + 1

\* The fetcher's getmany and dispatch, commit-every unset.
FetcherGetmany ==
    \/ GetmanyEnter
    \/ \E n \in [TPs -> 0..MaxBatchLen] :
          \E ord \in UNION {[1..k -> Topics] : k \in 0..Cardinality(Topics)} :
              GetmanyFetched(n, ord, FetchLimit, None)
    \/ GetmanyNext(FetchLimit, None)
    \/ DrainSetReadOffset

\* The round-robin dispatch while a partition is paused and resumed.
NextBatch ==
    \/ FetcherGetmany
    \/ PausePartitions({"a0"})
    \/ ResumePartitions({"a0"})

SpecBatch ==
    /\ InitCoord
    /\ [][NextBatch]_vars
    /\ WF_vars(GetmanyNext(FetchLimit, None))
    /\ WF_vars(DrainSetReadOffset)

\* The fetcher under pauses, resumes and rebalances of a0 (the driver's
\* assignment() lagging behind the rebalance callbacks).
NextFetch ==
    \/ FetcherGetmany
    \/ PausePartitions({"a0"})
    \/ ResumePartitions({"a0"})
    \/ OnPartitionsRevoked({"a0"})
    \/ \E assigned \in {{"b0"}, TPs} : OnPartitionsAssigned(assigned)

SpecFetch == InitCoord /\ [][NextFetch]_vars

\* The fetcher with commit-every set, under stop_flow and resume_flow.
NextStopFlow ==
    \/ GetmanyEnter
    \/ GetmanyFlowResumed
    \/ \E n \in [TPs -> 0..MaxBatchLen] :
          \E ord \in UNION {[1..k -> Topics] : k \in 0..Cardinality(Topics)} :
              GetmanyFetched(n, ord, FetchLimit, CommitEvery)
    \/ GetmanyNext(FetchLimit, CommitEvery)
    \/ DrainAfterCommit
    \/ DrainSetReadOffset
    \/ \E m \in created : Ack(m)
    \/ CommitSteps({"fetcher"})
    \/ StopFlow
    \/ ResumeFlow

SpecStopFlow == InitCoord /\ [][NextStopFlow]_vars

\* The flow controller under pauses, resumes, rebalances and restarts.
NextFlow ==
    \/ \E tpset \in SUBSET TPs : PausePartitions(tpset)
    \/ \E tpset \in SUBSET TPs : ResumePartitions(tpset)
    \/ \E rvk \in SUBSET TPs : OnPartitionsRevoked(rvk)
    \/ \E assigned \in SUBSET TPs : OnPartitionsAssigned(assigned)
    \/ \E tp \in TPs : Revoke(tp)
    \/ \E tp \in TPs : Assign(tp)
    \/ DeriveActive
    \/ OnRestart

SpecFlow == Init /\ [][NextFlow]_vars

\* The ack ledger of one partition, whose topic may have acks disabled, with
\* every call of ack() and its return value observed.
NextAck ==
    \/ \E m \in created : AckObserved(m)
    \/ CommitCall("ticker")
    \/ CommitSteps({"ticker"})
    \/ FetcherStepsNoCommit({"b0"}, MaxMsgsAck)
    \/ \E off \in Offsets : Seek("b0", off)

SpecAck == Init /\ [][NextAck]_vars

\* =================================================================
\* Properties
\* =================================================================
Min(S) == CHOOSE x \in S : \A y \in S : x <= y

\* The end of the longest run m, m+1, ... of offsets of S that starts at its
\* minimum m.
RunEnd(S) ==
    CHOOSE v \in S : /\ \A x \in Min(S)..v : x \in S
                     /\ v + 1 \notin S

\* After this step, some message of tp with an offset <= v has been handed to
\* the callback and is not acked yet.
PendingAtOrBelow(tp, v) ==
    \E m \in created' :
        MsgTp(m) = tp /\ MsgOffset(m) <= v /\ m \notin msg_acked'

\* Task t invokes the driver's commit in this step.
InvokesDriver(t) == pc[t] # "committing" /\ pc'[t] = "committing"

\* C1: no record is skipped by a commit: driver.commit is never invoked with an
\* offset v for tp, and committed_offset[tp] never becomes v, while a message
\* of tp with offset <= v has been dispatched to the callback and is not yet
\* acked.
C1_NoRecordSkipped ==
    [][ /\ \A t \in Tasks, tp \in TPs :
              (InvokesDriver(t) /\ offs'[t][tp] # None)
                  => ~PendingAtOrBelow(tp, offs'[t][tp])
        /\ \A tp \in TPs :
              (committed_offset'[tp] # committed_offset[tp]
                    /\ committed_offset'[tp] # None)
                  => ~PendingAtOrBelow(tp, committed_offset'[tp])
      ]_vars

\* C2: committed_offset[tp] is non-decreasing: no step replaces a defined
\* committed_offset[tp] by a smaller value or by unknown.
C2_CommittedMonotonic ==
    [][ \A tp \in TPs :
            committed_offset[tp] # None
                => /\ committed_offset'[tp] # None
                   /\ committed_offset'[tp] >= committed_offset[tp]
      ]_vars

\* C3: at most one driver commit is in flight at any instant.
C3_AtMostOneCommitInFlight ==
    Cardinality({t \in Tasks : pc[t] = "committing"}) <= 1

\* A follower (a caller of commit() that found a commit in progress) ends its
\* wait by returning False, and that return touches neither the ledger nor
\* the driver nor any other task's commit.
FollowerOnlyReturnsFalse(t) ==
    (pc[t] \in InWait /\ pc'[t] \notin InWait)
        => /\ pc'[t] = "ret_false"
           /\ UNCHANGED <<acked, acked_index, committed_offset, unacked,
                          n_acked, broker, offs, commit_fut>>
           /\ \A u \in Tasks \ {t} : pc'[u] = pc[u]

\* C4: every caller of commit() that finds a commit in progress waits until it
\* completes, then returns False without computing offsets, touching the
\* ledger or invoking the driver; so one driver commit serves the leader and
\* all its followers.
C4_FollowersAlwaysSkip ==
    [][ \A t \in Tasks : FollowerOnlyReturnsFalse(t) ]_vars

\* Coalescing without cancellation: as long as no waiting caller is cancelled,
\* at most one task is inside the commit procedure, a follower is woken only
\* by the step in which that commit completes, and it then returns False; at
\* any time, a follower whose future was resolved returns False in that way.
C4_Coalescing ==
    /\ [](cancels = 0 =>
            Cardinality({t \in Tasks : pc[t] \in InCommit}) <= 1)
    /\ [][ \A t \in Tasks :
            /\ (cancels' = 0 \/ pc[t] = "woken_ok")
                  => FollowerOnlyReturnsFalse(t)
            /\ (cancels' = 0 /\ pc[t] = "waiting" /\ pc'[t] # "waiting")
                  => /\ pc'[t] = "woken_ok"
                     /\ \E u \in Tasks : pc[u] \in InCommit /\ pc'[u] \in Returned
                     /\ \A u \in Tasks : pc'[u] \notin InCommit
         ]_vars

\* The state ack(m) is called in, for the call observed in last_ack'.
AckCalled == last_ack' # last_ack
AckedMsg == last_ack'.m
AckEffects ==
    LET m == AckedMsg
        tp == MsgTp(m)
    IN /\ acked'[tp] = Append(acked[tp], MsgOffset(m))
       /\ acked_index'[tp] = acked_index[tp] \cup {MsgOffset(m)}
       /\ unacked' = unacked \ {m}
       /\ n_acked' = n_acked + 1
ThreeAckConditions ==
    LET m == AckedMsg
        tp == MsgTp(m)
    IN /\ m \notin msg_acked
       /\ MsgOffset(m) \notin acked_index[tp]
       /\ (committed_offset[tp] = None \/ committed_offset[tp] < MsgOffset(m))

\* C5 as stated: ack(message) returns true iff message.acked was false, the
\* offset is not in acked_index[tp] and committed_offset[tp] is unknown or
\* below the offset; exactly then it appends the offset to acked[tp], adds it
\* to acked_index[tp], removes the message from unacked and increments n_acked.
C5_AckIffThree ==
    [][ AckCalled =>
          /\ last_ack'.ret <=> ThreeAckConditions
          /\ IF last_ack'.ret THEN AckEffects
             ELSE UNCHANGED <<acked, acked_index, unacked, n_acked>>
      ]_vars

\* C5 amended: ack(message) returns true iff acks are enabled for the topic of
\* the message and the three conditions hold; exactly then it appends the
\* offset to acked[tp], adds it to acked_index[tp], removes the message from
\* unacked and increments n_acked by one.
C5_AckIffEnabledAndThree ==
    [][ AckCalled =>
          /\ last_ack'.ret <=>
                (TopicOf(MsgTp(AckedMsg)) \notin acks_disabled
                    /\ ThreeAckConditions)
          /\ IF last_ack'.ret THEN AckEffects
             ELSE UNCHANGED <<acked, acked_index, unacked, n_acked>>
      ]_vars

\* ack returned true for a message: it left unacked and its offset is counted.
C5_Witness ==
    /\ last_ack.ret
    /\ last_ack.m \in msg_acked
    /\ last_ack.m \notin unacked
    /\ MsgOffset(last_ack.m) \in acked_index[MsgTp(last_ack.m)]
    /\ n_acked > 0

\* C6: a second ack of a message, an ack of a message whose offset is already
\* in the ledger, and an ack of a message whose offset is <= committed_offset
\* return false and leave acked, acked_index, n_acked, unacked and
\* committed_offset as they were.
C6_RejectedAckNoEffect ==
    [][ (AckCalled /\
            LET m == AckedMsg
                tp == MsgTp(m)
            IN \/ m \in msg_acked
               \/ MsgOffset(m) \in acked_index[tp]
               \/ (committed_offset[tp] # None
                      /\ MsgOffset(m) <= committed_offset[tp]))
          => /\ ~last_ack'.ret
             /\ UNCHANGED <<acked, acked_index, n_acked, unacked,
                            committed_offset>>
      ]_vars

\* An ack was rejected for a message that is still unacked-tracked while its
\* offset is recorded in the ledger (the offset was acked through another
\* delivery of the record), on a topic with acks enabled.
C6_Witness ==
    /\ ~last_ack.ret
    /\ last_ack.m \in unacked
    /\ last_ack.m \in msg_acked
    /\ acks_disabled = {}
    /\ MsgOffset(last_ack.m) \in acked_index[MsgTp(last_ack.m)]

\* Task t runs the commit procedure's _filter_committable_offsets in this step.
BeginsCommit(t) ==
    \/ pc[t] \notin InCommit /\ pc'[t] = "flushing"
    \/ \E tp \in TPs : Len(acked'[tp]) < Len(acked[tp])

\* C7: new_offset(tp) on a non-empty acked[tp] returns the end v of the
\* longest run of consecutive offsets that starts at the minimum m of
\* acked[tp]; exactly m..v leave acked[tp] and acked_index[tp]; on an empty
\* list nothing changes and nothing is returned.
C7_NewOffsetLeadingRun ==
    [][ \A t \in Tasks : BeginsCommit(t) =>
          \A tp \in TPs :
            LET S == RangeOf(acked[tp])
            IN IF S = {}
               THEN /\ acked'[tp] = acked[tp]
                    /\ acked_index'[tp] = acked_index[tp]
                    /\ (pc'[t] = "flushing" /\ pc[t] # "flushing")
                          => offs'[t][tp] = None
               ELSE /\ RangeOf(acked'[tp]) = S \ (Min(S)..RunEnd(S))
                    /\ Len(acked'[tp]) = Cardinality(S \ (Min(S)..RunEnd(S)))
                    /\ acked_index'[tp] = acked_index[tp] \ (Min(S)..RunEnd(S))
                    /\ (pc'[t] = "flushing" /\ pc[t] # "flushing")
                          => offs'[t][tp] \in {None, RunEnd(S)}
                    /\ (pc'[t] = "flushing" /\ pc[t] # "flushing"
                            /\ committed_offset[tp] = None)
                          => offs'[t][tp] = RunEnd(S)
      ]_vars

\* The fetcher's commit-every commit has just run new_offset on a ledger that
\* held 0 and 2 (no ack was counted since): it returned 0 and left 2 behind.
C7_Witness ==
    /\ pc["fetcher"] = "flushing"
    /\ drain.st = "commit"
    /\ n_acked = 0
    /\ offs["fetcher"]["a0"] = 0
    /\ acked["a0"] = <<2>>
    /\ acked_index["a0"] = {2}

\* C8: driver.commit is never invoked with a TP outside assignment(): the
\* offsets of unassigned TPs are discarded and their committed_offset stays;
\* when every computed offset is of an unassigned TP, commit returns false
\* without a driver call.
C8_RevokedNeverCommitted ==
    [][ \A t \in Tasks :
          /\ (pc[t] = "flush_ok" /\ pc'[t] # "flush_ok") =>
                IF \A tp \in TPs : offs[t][tp] # None => tp \notin assignment
                THEN /\ pc'[t] = "ret_false"
                     /\ UNCHANGED <<committed_offset, broker>>
                ELSE /\ pc'[t] = "committing"
                     /\ \A tp \in TPs :
                          offs'[t][tp] =
                            IF tp \in assignment THEN offs[t][tp] ELSE None
          /\ InvokesDriver(t) =>
                \A tp \in TPs : offs'[t][tp] # None => tp \in assignment
          /\ (pc[t] \in DriverOutcomes /\ pc'[t] # pc[t]) =>
                \A tp \in TPs :
                    committed_offset'[tp] # committed_offset[tp]
                        => offs[t][tp] # None
      ]_vars

\* The ticker's driver commit is in flight for a0 alone, while the offset
\* computed for the revoked b0 (acked, taken from the ledger) was discarded.
C8_Witness ==
    /\ pc["ticker"] = "committing"
    /\ offs["ticker"]["a0"] # None
    /\ offs["ticker"]["b0"] = None
    /\ "b0" \notin assignment
    /\ acked["b0"] = <<>>
    /\ committed_offset["b0"] = None
    /\ \E m \in msg_acked \ unacked : MsgTp(m) = "b0"

\* C9: when the producer raises ProducerSendError during the flush of the
\* attached messages, the service crashes, driver.commit is not invoked,
\* committed_offset is unchanged and commit() returns false.
C9_SendErrorCrashes ==
    [][ \A t \in Tasks :
          (pc[t] = "flush_err" /\ pc'[t] # "flush_err")
              => /\ crashed'
                 /\ pc'[t] = "ret_false"
                 /\ UNCHANGED <<committed_offset, broker>>
                 /\ \A u \in Tasks : ~InvokesDriver(u)
      ]_vars

\* A commit ended by the producer's send error: crashed, returned false,
\* nothing committed although an offset had been taken from the ledger.
C9_Witness ==
    /\ crashed
    /\ pc["ticker"] = "ret_false"
    /\ committed_offset = NoOffsets
    /\ broker = NoOffsets
    /\ \E m \in msg_acked \ unacked : acked[MsgTp(m)] = <<>>

\* C10: committed_offset[tp] is advanced, and commit() returns true, only when
\* the driver's commit succeeded: when it returns false or raises,
\* committed_offset is unchanged and the call does not return true; so
\* committed_offset[tp] never exceeds what is committed at the broker.
C10_AdvanceOnlyOnSuccess ==
    /\ [][ \A t \in Tasks :
             (pc[t] \in {"drv_false", "drv_raise"} /\ pc'[t] # pc[t])
                 => /\ UNCHANGED committed_offset
                    /\ pc'[t] # "ret_true"
         ]_vars
    /\ [](\A tp \in TPs :
             committed_offset[tp] # None
                 => /\ broker[tp] # None
                    /\ committed_offset[tp] <= broker[tp])

\* The fetcher hands a new message to the callback in this step.
Dispatches == created' # created
Dispatched == CHOOSE m \in created' : m \notin created

ResumesPaused(tpset) ==
    last_pause.fresh /\ last_pause.tps = tpset /\ ResumePartitions(tpset)

\* C12: pause_partitions(S) followed by resume_partitions(S) leaves
\* active_partitions and paused_partitions equal to their values before the
\* pause, for every S and every prior state of the flow controller.
C12_PauseResumeRestores ==
    [][ \A tpset \in SUBSET TPs : ResumesPaused(tpset) =>
            /\ active_partitions' = <<last_pause.active>>
            /\ paused_partitions' = last_pause.paused
      ]_vars

\* C12 amended: pause_partitions(S) followed by resume_partitions(S) leaves
\* active_partitions = A \cup S and paused_partitions = P \ S, where A and P are
\* the sets before the pause; they equal A and P when every TP of S was active
\* before the pause.
C12_PauseResumeActivates ==
    [][ \A tpset \in SUBSET TPs : ResumesPaused(tpset) =>
            /\ active_partitions' = <<last_pause.active \cup tpset>>
            /\ paused_partitions' = last_pause.paused \ tpset
            /\ tpset \subseteq last_pause.active =>
                  /\ active_partitions' = <<last_pause.active>>
                  /\ paused_partitions' = last_pause.paused
      ]_vars

\* A pause of active partitions, one other partition being paused already,
\* was followed by the resume of the same partitions, and the sets are back.
C12_Witness ==
    /\ last_pause.resumed
    /\ last_pause.tps # {}
    /\ last_pause.tps \subseteq last_pause.active
    /\ last_pause.paused # {}
    /\ active_partitions = <<last_pause.active>>
    /\ paused_partitions = last_pause.paused

\* C20: paused_partitions and the active partitions (the stored set, or the
\* set derived from assignment() when none is stored) are disjoint.
C20_PausedActiveDisjoint ==
    paused_partitions \cap GetActivePartitions = {}

\* Some partition is paused and another is in the stored active set.
C20_Witness ==
    /\ paused_partitions # {}
    /\ active_partitions # <<>>
    /\ active_partitions[1] # {}

\* C13: perform_seek sets read_offset[tp] and committed_offset[tp] to the
\* offset seek_to_committed returns for tp, a returned 0 becoming unknown in
\* both maps, and leaves the entries of a TP for which none is returned.
C13_PerformSeekNormalizesZero ==
    [][ PerformSeek =>
          \A tp \in assignment :
              /\ broker[tp] = None =>
                    /\ read_offset'[tp] = read_offset[tp]
                    /\ committed_offset'[tp] = committed_offset[tp]
              /\ broker[tp] = 0 =>
                    /\ read_offset'[tp] = None
                    /\ committed_offset'[tp] = None
              /\ (broker[tp] # None /\ broker[tp] # 0) =>
                    /\ read_offset'[tp] = broker[tp]
                    /\ committed_offset'[tp] = broker[tp]
      ]_vars

\* C15: seek(tp, offset) sets read_offset[tp] to offset (to unknown when
\* offset is 0), clears the livelock clock, changes no other ledger field,
\* and when it completes the driver's seek has been executed with
\* (tp, offset).
C15_SeekReachesDriver ==
    [][ \A tp \in TPs, off \in Offsets : Seek(tp, off) =>
            /\ read_offset'[tp] = (IF off = 0 THEN None ELSE off)
            /\ last_batch' = None
            /\ UNCHANGED ledger_but_read
            /\ <<tp, off>> \in driver_seeks'
      ]_vars

\* C14: whenever wait_empty returns while the service is not stopping,
\* unacked is empty at the moment it returns.
C14_WaitEmptyReturnsEmpty ==
    [][ (we' = "returned" /\ we # "returned" /\ ~should_stop)
            => unacked' = {}
      ]_vars

\* C16: with the service not stopping and ack() eventually called on every
\* tracked message, a call of wait_empty eventually returns (or is left by an
\* exception of the driver).
C16_WaitEmptyTerminates ==
    (we # "idle") ~> (we \in {"returned", "raised"})

\* C17: for every TP the elements of acked[tp] are pairwise distinct and each
\* is strictly greater than committed_offset[tp] when that is defined.
C17_AckedAboveCommitted ==
    \A tp \in TPs :
        /\ Cardinality(RangeOf(acked[tp])) = Len(acked[tp])
        /\ committed_offset[tp] # None =>
              \A i \in 1..Len(acked[tp]) : acked[tp][i] > committed_offset[tp]

\* C18: for every TP, acked_index[tp] is the set of the elements of acked[tp].
C18_IndexMatchesAcked ==
    \A tp \in TPs : acked_index[tp] = RangeOf(acked[tp])

\* The offset of a record dispatched twice is in the ledger once, the ack of
\* its second message having been rejected.
C18_Witness ==
    \E m \in msg_acked :
        /\ m[3] = 2
        /\ m \in unacked
        /\ MsgOffset(m) \in acked_index[MsgTp(m)]
        /\ acked[MsgTp(m)] = <<MsgOffset(m)>>

\* C19: for every TP where both are defined,
\* read_offset[tp] >= committed_offset[tp].
C19_ReadNotBelowCommitted ==
    \A tp \in TPs :
        (read_offset[tp] # None /\ committed_offset[tp] # None)
            => read_offset[tp] >= committed_offset[tp]

\* The step in which task t's commit procedure, suspended with its future
\* installed, completes through the finally clause of commit().
Completes(t) == pc[t] \in InCommit /\ pc'[t] \in Returned

\* C21: whenever a commit() that installed the pending-commit future completes
\* (by return, by an exception of the flush or the driver), the slot is empty
\* afterwards and no caller is left waiting on the future it held; and the
\* slot that the completing commit clears is its own: it is never one that a
\* different commit, still running, installed.
C21_CompletionClearsOwnSlot ==
    [][ \A t \in Tasks :
            Completes(t) =>
                /\ commit_fut' = NoFut
                /\ \A u \in Tasks :
                       (pc[u] = "waiting" /\ wait_fut[u] = commit_fut)
                           => pc'[u] = "woken_ok"
                /\ commit_fut \in {NoFut, FutOf(t)}
      ]_vars

\* The step in which a caller whose wait was cancelled leaves
\* maybe_wait_for_commit_to_finish.
CancelledWaitEnds(t) == pc[t] = "woken_cancel" /\ pc'[t] # "woken_cancel"

\* C22 as stated: a caller whose wait on the pending-commit future was
\* cancelled does not return False; it installs a new future and runs the
\* commit procedure itself.
C22_CancelledWaiterNeverFalse ==
    [][ \A t \in Tasks :
            CancelledWaitEnds(t) =>
                pc'[t] = "flushing" /\ commit_fut' = FutOf(t)
      ]_vars

\* C22 amended: a caller whose wait was cancelled runs the commit procedure
\* itself: _new_offset takes the leading runs out of the ledger, and either
\* the caller suspends in the flush with a future of its own installed, or
\* nothing is committable and it returns False with the slot cleared.
C22_CancelledWaiterCommits ==
    [][ \A t \in Tasks :
            CancelledWaitEnds(t) =>
                LET nf == [tp \in TPs |-> NewOffset(acked[tp])]
                    co == CommitOffsets(nf, committed_offset)
                IN /\ acked' = [tp \in TPs |-> nf[tp].rest]
                   /\ IF co = NoOffsets
                      THEN pc'[t] = "ret_false" /\ commit_fut' = NoFut
                      ELSE /\ pc'[t] = "flushing"
                           /\ offs'[t] = co
                           /\ commit_fut' = FutOf(t)
      ]_vars

\* A caller whose wait was cancelled is inside a commit of its own, its
\* future in the slot, while the commit it waited for is still running.
C22_Witness ==
    /\ cancels > 0
    /\ pc["caller"] = "flushing"
    /\ commit_fut = FutOf("caller")
    /\ pc["ticker"] \in InCommit

\* C23: the flush precedes the driver commit: within one commit procedure,
\* driver.commit is invoked only after, for every (tp, offset) of
\* commit_offsets, the attached messages were published and their producer
\* futures completed; no offset reaches the driver before its attached
\* messages are flushed.
C23_FlushPrecedesDriverCommit ==
    [][ \A t \in Tasks :
            InvokesDriver(t) =>
                /\ pc[t] = "flush_ok"
                /\ \A tp \in TPs :
                       /\ offs[t][tp] # None => <<tp, offs[t][tp]>> \in flushed
                       /\ offs'[t][tp] \in {None, offs[t][tp]}
      ]_vars

\* The driver's commit is in flight with the offsets of both TPs, the
\* attachments of each having been flushed in an iteration of its own.
C23_Witness ==
    /\ pc["ticker"] = "committing"
    /\ \A tp \in TPs :
           offs["ticker"][tp] # None /\ <<tp, offs["ticker"][tp]>> \in flushed

\* ack(m) recorded m's offset in the ledger: only then does ack take the
\* message out of unacked.
AckRecorded(m) == m \in msg_acked /\ m \notin unacked

\* C29: an offset leaves acked / acked_index only through a commit that
\* durably commits an offset >= it: an offset that ack recorded is in
\* acked_index[tp], or the broker holds a committed offset >= it, or a commit
\* procedure that took it is still running; after a commit procedure that
\* did not commit tp (should_commit rejects, TP not assigned, producer send
\* failure, driver failure) the offset is still in the ledger.
C29_AckedKeptUntilCommitted ==
    \A m \in created :
        AckRecorded(m) =>
            LET tp == MsgTp(m)
                off == MsgOffset(m)
            IN \/ off \in acked_index[tp]
               \/ broker[tp] # None /\ broker[tp] >= off
               \/ \E t \in Tasks :
                      /\ pc[t] \in InCommit
                      /\ offs[t][tp] # None
                      /\ offs[t][tp] >= off

\* The records getmany has taken from a topic's iterator, and those of the
\* records it yielded that are the topic's.
Taken(g, topic) == Len(g.batch[topic]) - Len(g.index[topic])
EmittedOf(g, topic) ==
    LET OfTopic(item) == TopicOf(item[1]) = topic
    IN SelectSeq(g.emitted, OfTopic)

\* A step of the round-robin loop, and the loop as it stood before the step
\* (for the step in which the fetch returns: as built from the records).
RunsGetmany == gm.st \in {"fetch", "loop"} /\ gm' # gm
BeforeRun ==
    IF gm.st = "fetch" THEN [gm' EXCEPT !.index = gm'.batch, !.emitted = <<>>]
    ELSE gm

\* Every record taken in the step is skipped if its TP is not in the local
\* active set, and is otherwise the one record the step yields.
TakesAndYields ==
    LET b == BeforeRun
        new == {item \in UNION {RangeOf(gm'.batch[topic]) : topic \in Topics} :
                    LET topic == TopicOf(item[1])
                    IN \E i \in (Taken(b, topic) + 1)..Taken(gm', topic) :
                           gm'.batch[topic][i] = item}
        yielded == {item \in new : item[1] \in LocalActive(gm)}
    IN /\ gm'.batch = b.batch
       /\ \A topic \in Topics : Taken(gm', topic) >= Taken(b, topic)
       /\ Cardinality(yielded) <= 1
       /\ IF yielded = {} THEN gm'.emitted = b.emitted
          ELSE \E item \in yielded :
                  /\ gm'.emitted = Append(b.emitted, item)
                  /\ gm'.index[TopicOf(item[1])]
                        = SubSeq(b.batch[TopicOf(item[1])],
                                 Taken(gm', TopicOf(item[1])) + 1,
                                 Len(b.batch[TopicOf(item[1])]))
                  /\ gm'.st = "loop"

\* Per topic the yielded records keep the order of the topic's iterator,
\* none yielded twice (the offsets of an iterator increase).
KeepsTopicOrder ==
    \A topic \in Topics :
        LET e == EmittedOf(gm, topic)
        IN \A i, j \in 1..Len(e) : i < j => e[i][2] < e[j][2]

\* Between yields, two topics whose iterators are not exhausted have had
\* equally many records taken, or the one earlier in insertion order one
\* more.
EvenProgress ==
    gm.st = "loop" =>
        \A i, j \in 1..Len(gm.order) :
            (/\ i < j
             /\ gm.index[gm.order[i]] # <<>>
             /\ gm.index[gm.order[j]] # <<>>)
                => Taken(gm, gm.order[i]) - Taken(gm, gm.order[j]) \in {0, 1}

\* C26: the round-robin dispatch of one batch terminates; it yields every
\* fetched record of an active TP exactly once and no other, keeps each
\* topic's order, takes at most one record per topic per pass in insertion
\* order (the records taken from two unexhausted topics differ by at most
\* one), and with the flow active it ends only with every iterator empty.
C26_RoundRobinDispatch ==
    /\ [](KeepsTopicOrder /\ EvenProgress)
    /\ [][ RunsGetmany =>
             /\ TakesAndYields
             /\ gm'.st = "idle" =>
                   \A topic \in Topics : gm'.index[topic] = <<>>
         ]_vars
    /\ (gm.st = "loop") ~> (gm.st = "idle")

\* A batch of two records of topic a and one of topic b has been dispatched
\* to its end, the topics taking turns.
C26_Witness ==
    /\ gm.st = "idle"
    /\ gm.emitted = << <<"a0", 0>>, <<"b0", 0>>, <<"a0", 1>> >>

\* getmany calls the driver's fetch in this step; the fetch returns records.
StartsFetch == gm.st # "fetch" /\ gm'.st = "fetch"
FetchReturnsRecords ==
    gm.st = "fetch" /\ gm'.st # "fetch" /\ gm'.batch # NoIndex

\* C24: from on_partitions_revoked(R), which takes R out of the active and
\* the paused sets, until the TPs are assigned again, the fetcher starts no
\* fetch that asks for a TP of R and hands no record of a TP of R to the
\* callback, also when active_partitions was unset at the time of the revoke.
C24_RevokedNotFetched ==
    [][ /\ StartsFetch => gm'.req \cap revoked = {}
        /\ Dispatches => MsgTp(Dispatched) \notin revoked
      ]_vars

\* C25: a record is handed to the callback only if its TP is in the
\* consumer's active set at the time of the dispatch, and no record of a
\* paused partition is dispatched, whatever pause, resume,
\* on_partitions_revoked and on_partitions_assigned did while the batch ran.
C25_DispatchOnlyActive ==
    [][ Dispatches =>
          /\ active_partitions # <<>>
          /\ MsgTp(Dispatched) \in active_partitions[1]
          /\ MsgTp(Dispatched) \notin paused_partitions
      ]_vars

\* C28: the last-batch timestamp is set when a fetch returns a non-empty
\* result (and stays set until a successful commit, a seek,
\* on_partitions_assigned or stop clears it).
C28_LastBatchSetByFetch ==
    [][ FetchReturnsRecords => last_batch' # None ]_vars

\* C27: while the flow is stopped (stop_flow called, resume_flow not yet) no
\* driver fetch starts and no callback invocation begins, also when the
\* fetcher was suspended in a commit-every commit between taking a record
\* and invoking the callback.
C27_StoppedFlowNoDispatch ==
    [][ (StartsFetch \/ Dispatches) => flow_active ]_vars

====
